---- MODULE Spec2Model ----
(***************************************************************************)
(* A model of the two 2048 programs of the repository:                     *)
(*   - the dense variant  (src/unnamed/part_000): a number[][] grid with   *)
(*     score, best score and an undo history;                              *)
(*   - the sparse variant (src/src/App.tsx): a list of Tile records with   *)
(*     ids, a game-over flag and a win flag.                               *)
(* Positions in TLA+ sequences are 1-based: the code's index i is the      *)
(* position i + 1.  The row and col fields of a Tile keep the code's       *)
(* 0-based values.                                                         *)
(***************************************************************************)
EXTENDS Integers, Sequences, FiniteSets, TLC

VARIABLES
    variant,    \* which App is mounted: "dense" or "sparse"
    line,       \* argument of the line primitives (SpecLine)
    grid,       \* dense: useState<Grid>
    score,      \* dense: useState score
    best,       \* dense: useState best
    history,    \* dense: useState history, a sequence of [grid, score]
    tiles,      \* sparse: useState<Tile[]>
    nextId,     \* sparse: module-level let nextId
    gameOver,   \* both: useState gameOver
    gameWin,    \* sparse: useState gameWin
    last,       \* the last call or event handled, with its local values
    steps       \* number of events handled so far

vars == <<variant, line, grid, score, best, history, tiles, nextId,
          gameOver, gameWin, last, steps>>

-----------------------------------------------------------------------------
(* Constants of the programs                                               *)

SIZE == 4

START_TILES == 2

WinValue == 128

HistoryKeep == 9

FirstId == 1

Idx == 1..SIZE

Cells == Idx \X Idx

-----------------------------------------------------------------------------
(* Bounds of the model                                                     *)

\* cell values of the lines of SpecLine are 0 or 2^1 .. 2^MaxExp
MaxExp == 3

\* Math.random() is drawn from {0/RandLevels, ..., (RandLevels-1)/RandLevels}
\* when it selects the empty cell of a spawn
RandLevels == 1

\* number of events (keys, clicks) a run handles
MaxSteps == 2

\* the rows of the boards of SpecBoard are the first MaxRows of RowChoices
MaxRows == 6

-----------------------------------------------------------------------------
(* Helpers on sequences                                                    *)

RECURSIVE Pow2(_)
Pow2(k) == IF k = 0 THEN 1 ELSE 2 * Pow2(k - 1)

RECURSIVE SumSeq(_)
SumSeq(s) == IF s = <<>> THEN 0 ELSE Head(s) + SumSeq(Tail(s))

Reverse(s) == [i \in 1..Len(s) |-> s[Len(s) + 1 - i]]

RECURSIVE Flat(_)
Flat(ss) == IF ss = <<>> THEN <<>> ELSE Head(ss) \o Flat(Tail(ss))

-----------------------------------------------------------------------------
(* Dense variant: pure functions                                           *)

newEmptyGrid == [r \in Idx |-> [c \in Idx |-> 0]]

cloneGrid(g) == [r \in Idx |-> [c \in Idx |-> g[r][c]]]

transpose(g) == [r \in Idx |-> [c \in Idx |-> g[c][r]]]

reverseRows(g) == [r \in Idx |-> Reverse(g[r])]

\* while (newRow.length < SIZE) newRow.push(0)
RECURSIVE PadRow(_, _)
PadRow(newRow, empty) ==
    IF Len(newRow) < SIZE THEN PadRow(Append(newRow, empty), empty) ELSE newRow

\* the for loop of slideAndMergeRow; i is the code's 0-based index.
\* filtered[i + 1] past the end is undefined, which equals no number.
RECURSIVE MergeLoop(_, _, _, _)
MergeLoop(filtered, i, newRow, sc) ==
    IF i >= Len(filtered) THEN [row |-> newRow, score |-> sc]
    ELSE IF i + 1 < Len(filtered) /\ filtered[i + 1] = filtered[i + 2]
         THEN LET merged == filtered[i + 1] * 2
              IN  MergeLoop(filtered, i + 2, Append(newRow, merged), sc + merged)
         ELSE MergeLoop(filtered, i + 1, Append(newRow, filtered[i + 1]), sc)

\* a bug: the i++ after a merge is missing, so the second cell of a merged
\* pair is visited again
RECURSIVE MergeLoopNoSkip(_, _, _, _)
MergeLoopNoSkip(filtered, i, newRow, sc) ==
    IF i >= Len(filtered) THEN [row |-> newRow, score |-> sc]
    ELSE IF i + 1 < Len(filtered) /\ filtered[i + 1] = filtered[i + 2]
         THEN LET merged == filtered[i + 1] * 2
              IN  MergeLoopNoSkip(filtered, i + 1, Append(newRow, merged), sc + merged)
         ELSE MergeLoopNoSkip(filtered, i + 1, Append(newRow, filtered[i + 1]), sc)

slideAndMergeRowNoSkip(row) ==
    LET filtered == SelectSeq(row, LAMBDA v : v # 0)
        res == MergeLoopNoSkip(filtered, 0, <<>>, 0)
    IN  [row |-> SubSeq(PadRow(res.row, 0), 1, SIZE), scoreGained |-> res.score]

\* a bug: the empty cells are not dropped before the scan
slideAndMergeRowNoFilter(row) ==
    LET res == MergeLoop(row, 0, <<>>, 0)
    IN  [row |-> PadRow(res.row, 0), scoreGained |-> res.score]

slideAndMergeRow(row) ==
    LET filtered == SelectSeq(row, LAMBDA v : v # 0)
        res == MergeLoop(filtered, 0, <<>>, 0)
    IN  [row |-> PadRow(res.row, 0), scoreGained |-> res.score]

\* a bug: moved is set by a merge only, not by a slide
moveLeftMovedByScore(g) ==
    LET rows == [r \in Idx |-> slideAndMergeRow(g[r])]
        sc == SumSeq([r \in Idx |-> rows[r].scoreGained])
    IN  [grid  |-> [r \in Idx |-> rows[r].row],
         moved |-> sc > 0,
         score |-> sc]

moveLeft(g) ==
    LET rows == [r \in Idx |-> slideAndMergeRow(g[r])]
    IN  [grid  |-> [r \in Idx |-> rows[r].row],
         moved |-> \E r \in Idx : \E i \in Idx : rows[r].row[i] # g[r][i],
         score |-> SumSeq([r \in Idx |-> rows[r].scoreGained])]

\* a bug: the slid board is not mirrored back
moveRightNoReverseBack(g) ==
    LET res == moveLeft(reverseRows(g))
    IN  [grid |-> res.grid, moved |-> res.moved, score |-> res.score]

moveRight(g) ==
    LET res == moveLeft(reverseRows(g))
    IN  [grid |-> reverseRows(res.grid), moved |-> res.moved, score |-> res.score]

moveUp(g) ==
    LET res == moveLeft(transpose(g))
    IN  [grid |-> transpose(res.grid), moved |-> res.moved, score |-> res.score]

moveDown(g) ==
    LET res == moveRight(transpose(g))
    IN  [grid |-> transpose(res.grid), moved |-> res.moved, score |-> res.score]

\* a bug: only horizontal neighbours are compared
canMoveRowsOnly(g) ==
    \/ \E r \in Idx : \E c \in Idx : g[r][c] = 0
    \/ \E r \in Idx : \E c \in Idx : c < SIZE /\ g[r][c + 1] = g[r][c]

canMove(g) ==
    \/ \E r \in Idx : \E c \in Idx : g[r][c] = 0
    \/ \E r \in Idx : \E c \in Idx :
          \/ c < SIZE /\ g[r][c + 1] = g[r][c]
          \/ r < SIZE /\ g[r + 1][c] = g[r][c]

\* the cells in the order of the nested r, c loops
CellSeq == [k \in 1..(SIZE * SIZE) |-> <<((k - 1) \div SIZE) + 1, ((k - 1) % SIZE) + 1>>]

\* empties[Math.floor(Math.random() * empties.length)] with Math.random() = k / RandLevels
RandomIndex(k, len) == ((k * len) \div RandLevels) + 1

\* the values k of the first Math.random() and the outcomes of the second
\* (Math.random() < 0.9 ? 2 : 4)
RandCell == 0..(RandLevels - 1)

RandValue == {2, 4}

RandDraw == RandCell \X RandValue

\* a bug: the rarer tile value is 6, not 4
addRandomTileSix(g, draw) ==
    LET empties == SelectSeq(CellSeq, LAMBDA rc : g[rc[1]][rc[2]] = 0)
    IN  IF Len(empties) = 0 THEN g
        ELSE LET rc == empties[RandomIndex(draw[1], Len(empties))]
                 v == IF draw[2] = 2 THEN 2 ELSE 6
             IN  [r \in Idx |-> [c \in Idx |-> IF <<r, c>> = rc THEN v ELSE g[r][c]]]

\* a bug: the cell is drawn from all cells, not from the empty ones
addRandomTileAnyCell(g, draw) ==
    LET rc == CellSeq[RandomIndex(draw[1], Len(CellSeq))]
    IN  [r \in Idx |-> [c \in Idx |-> IF <<r, c>> = rc THEN draw[2] ELSE g[r][c]]]

\* draw = <<k, v>>: the two random numbers addRandomTile consumes
addRandomTile(g, draw) ==
    LET empties == SelectSeq(CellSeq, LAMBDA rc : g[rc[1]][rc[2]] = 0)
    IN  IF Len(empties) = 0 THEN g
        ELSE LET rc == empties[RandomIndex(draw[1], Len(empties))]
             IN  [r \in Idx |-> [c \in Idx |-> IF <<r, c>> = rc THEN draw[2] ELSE g[r][c]]]

\* for (let i = 0; i < START_TILES; i++) g = addRandomTile(g)
RECURSIVE InitLoop(_, _, _)
InitLoop(g, i, draws) ==
    IF i >= START_TILES THEN g ELSE InitLoop(addRandomTile(g, draws[i + 1]), i + 1, draws)

\* a bug: the loop adds one tile only
initGridOneTile(draws) == addRandomTile(newEmptyGrid, draws[1])

initGrid(draws) == InitLoop(newEmptyGrid, 0, draws)

InitDraws == [1..START_TILES -> RandDraw]

\* a bug: no slice, the history grows with every move
pushHistoryNoDrop(h, g, s) == Append(h, [grid |-> cloneGrid(g), score |-> s])

\* setHistory((h) => [...h.slice(-9), {grid, score}])
pushHistory(h, g, s) ==
    LET kept == IF Len(h) > HistoryKeep THEN SubSeq(h, Len(h) - HistoryKeep + 1, Len(h)) ELSE h
    IN  Append(kept, [grid |-> cloneGrid(g), score |-> s])

-----------------------------------------------------------------------------
(* Sparse variant: pure functions.  A function that reads or writes the    *)
(* module-level nextId takes it as nid and returns the new value.          *)

Null == [id |-> 0, value |-> 0, row |-> 0, col |-> 0]

newEmptyBoard == <<>>

getEmptyCells(ts) ==
    LET occupied == {<<ts[i].row, ts[i].col>> : i \in 1..Len(ts)}
    IN  SelectSeq(CellSeq, LAMBDA rc : <<rc[1] - 1, rc[2] - 1>> \notin occupied)

addRandomTileS(ts, nid, draw) ==
    LET empties == getEmptyCells(ts)
    IN  IF Len(empties) = 0 THEN [tiles |-> ts, nextId |-> nid]
        ELSE LET rc == empties[RandomIndex(draw[1], Len(empties))]
             IN  [tiles  |-> Append(ts, [id |-> nid, value |-> draw[2],
                                         row |-> rc[1] - 1, col |-> rc[2] - 1]),
                  nextId |-> nid + 1]

\* tiles.forEach((t) => grid[t.row][t.col] = ...): the last tile of a cell stays
TileAt(ts, r, c) ==
    LET at == {i \in 1..Len(ts) : ts[i].row = r - 1 /\ ts[i].col = c - 1}
    IN  IF at = {} THEN Null ELSE ts[CHOOSE i \in at : \A j \in at : j <= i]

TileGrid(ts) == [r \in Idx |-> [c \in Idx |-> TileAt(ts, r, c)]]

ValueGrid(ts) == [r \in Idx |-> [c \in Idx |-> TileAt(ts, r, c).value]]

canMoveS(ts) ==
    IF Len(ts) < SIZE * SIZE THEN TRUE
    ELSE LET g == ValueGrid(ts)
         IN  \E r \in Idx : \E c \in Idx :
                \/ c < SIZE /\ g[r][c + 1] = g[r][c]
                \/ r < SIZE /\ g[r + 1][c] = g[r][c]

\* the for loop of slideRow; i is the code's 0-based index
RECURSIVE SlideLoop(_, _, _, _, _)
SlideLoop(vals, i, newRow, merged, nid) ==
    IF i >= Len(vals) THEN [newRow |-> newRow, merged |-> merged, nextId |-> nid]
    ELSE IF i < Len(vals) - 1 /\ vals[i + 1].value = vals[i + 2].value
         THEN LET mergedTile == [id |-> nid, value |-> vals[i + 1].value * 2,
                                 row |-> 0, col |-> 0]
              IN  SlideLoop(vals, i + 2, Append(newRow, mergedTile), TRUE, nid + 1)
         ELSE SlideLoop(vals, i + 1, Append(newRow, vals[i + 1]), merged, nid)

\* a bug: the merged tile takes the value of one tile, not the double
RECURSIVE SlideLoopNoDouble(_, _, _, _, _)
SlideLoopNoDouble(vals, i, newRow, merged, nid) ==
    IF i >= Len(vals) THEN [newRow |-> newRow, merged |-> merged, nextId |-> nid]
    ELSE IF i < Len(vals) - 1 /\ vals[i + 1].value = vals[i + 2].value
         THEN LET mergedTile == [id |-> nid, value |-> vals[i + 1].value,
                                 row |-> 0, col |-> 0]
              IN  SlideLoopNoDouble(vals, i + 2, Append(newRow, mergedTile), TRUE, nid + 1)
         ELSE SlideLoopNoDouble(vals, i + 1, Append(newRow, vals[i + 1]), merged, nid)

slideRowNoDouble(row, nid) ==
    LET vals == SelectSeq(row, LAMBDA t : t # Null)
        res == SlideLoopNoDouble(vals, 0, <<>>, FALSE, nid)
    IN  [newRow |-> PadRow(res.newRow, Null), merged |-> res.merged, nextId |-> res.nextId]

slideRow(row, nid) ==
    LET vals == SelectSeq(row, LAMBDA t : t # Null)
        res == SlideLoop(vals, 0, <<>>, FALSE, nid)
    IN  [newRow |-> PadRow(res.newRow, Null), merged |-> res.merged, nextId |-> res.nextId]

\* nu.row = r; nu.col = c for the tiles of a new row (rr, cc are 1-based)
Place(t, rr, cc) == IF t = Null THEN Null ELSE [t EXCEPT !.row = rr - 1, !.col = cc - 1]

\* for (let r = 0; r < SIZE; r++) of the ArrowLeft / ArrowRight branch; r is 1-based
RECURSIVE RowLoop(_, _, _, _, _)
RowLoop(g, r, dir, moved, nid) ==
    IF r > SIZE THEN [grid |-> g, moved |-> moved, nextId |-> nid]
    ELSE LET row == IF dir = "ArrowRight" THEN Reverse(g[r]) ELSE g[r]
             res == slideRow(row, nid)
             out == IF dir = "ArrowRight" THEN Reverse(res.newRow) ELSE res.newRow
             placed == [c \in Idx |-> Place(out[c], r, c)]
             changed == \E c \in Idx : g[r][c].id # out[c].id
         IN  RowLoop([rr \in Idx |-> IF rr = r THEN placed ELSE g[rr]],
                     r + 1, dir, moved \/ changed, res.nextId)

\* for (let c = 0; c < SIZE; c++) of the ArrowUp / ArrowDown branch; c is 1-based
RECURSIVE ColLoop(_, _, _, _, _)
ColLoop(g, c, dir, moved, nid) ==
    IF c > SIZE THEN [grid |-> g, moved |-> moved, nextId |-> nid]
    ELSE LET col == [r \in Idx |-> g[r][c]]
             arg == IF dir = "ArrowDown" THEN Reverse(col) ELSE col
             res == slideRow(arg, nid)
             out == IF dir = "ArrowDown" THEN Reverse(res.newRow) ELSE res.newRow
             changed == \E r \in Idx : g[r][c].id # out[r].id
         IN  ColLoop([r \in Idx |-> [cc \in Idx |-> IF cc = c THEN Place(out[r], r, c)
                                                   ELSE g[r][cc]]],
                     c + 1, dir, moved \/ changed, res.nextId)

\* a bug: ArrowDown does not reverse the column
moveTilesDownAsUp(ts, dir, nid) ==
    LET g == TileGrid(ts)
        res == IF dir \in {"ArrowLeft", "ArrowRight"}
               THEN RowLoop(g, 1, dir, FALSE, nid)
               ELSE ColLoop(g, 1, "ArrowUp", FALSE, nid)
    IN  [tiles  |-> SelectSeq(Flat(res.grid), LAMBDA t : t # Null),
         moved  |-> res.moved,
         nextId |-> res.nextId]

moveTiles(ts, dir, nid) ==
    LET g == TileGrid(ts)
        res == IF dir \in {"ArrowLeft", "ArrowRight"}
               THEN RowLoop(g, 1, dir, FALSE, nid)
               ELSE ColLoop(g, 1, dir, FALSE, nid)
    IN  [tiles  |-> SelectSeq(Flat(res.grid), LAMBDA t : t # Null),
         moved  |-> res.moved,
         nextId |-> res.nextId]

-----------------------------------------------------------------------------
(* SpecLine: the two line primitives applied to every line of SIZE cells   *)
(* that are empty or a power of two up to 2^MaxExp.                        *)

LineVals == {0} \cup {Pow2(k) : k \in 1..MaxExp}

\* the row of Tile | null that moveTiles hands to slideRow for a line of values
LineTiles(ln) ==
    [i \in Idx |-> IF ln[i] = 0 THEN Null
                   ELSE [id |-> i, value |-> ln[i], row |-> 0, col |-> i - 1]]

NoGame ==
    /\ variant = "none"
    /\ score = 0 /\ best = 0 /\ history = <<>>
    /\ gameOver = FALSE /\ gameWin = FALSE
    /\ steps = 0

InitLine ==
    /\ NoGame
    /\ line \in [Idx -> LineVals]
    /\ grid = newEmptyGrid
    /\ tiles = <<>>
    /\ nextId = SIZE + 1
    /\ last = [op |-> "none"]

CallSlideAndMergeRow ==
    /\ last.op = "none"
    /\ last' = [op |-> "slideAndMergeRow", res |-> slideAndMergeRow(line)]
    /\ UNCHANGED <<variant, line, grid, score, best, history, tiles, nextId,
                   gameOver, gameWin, steps>>

CallSlideRow ==
    /\ last.op = "none"
    /\ last' = [op |-> "slideRow", res |-> slideRow(LineTiles(line), nextId)]
    /\ UNCHANGED <<variant, line, grid, score, best, history, tiles, nextId,
                   gameOver, gameWin, steps>>

NextLine == CallSlideAndMergeRow \/ CallSlideRow

SpecLine == InitLine /\ [][NextLine]_vars

-----------------------------------------------------------------------------
(* Claims about the line primitives                                        *)

\* what the specification asks of a line: compact, then merge equal
\* neighbours from the head, a merged cell never merging again
Compact(ln) == SelectSeq(ln, LAMBDA v : v # 0)

RECURSIVE MergePairs(_)
MergePairs(s) ==
    IF Len(s) < 2 THEN s
    ELSE IF s[1] = s[2] THEN <<2 * s[1]>> \o MergePairs(SubSeq(s, 3, Len(s)))
         ELSE <<s[1]>> \o MergePairs(Tail(s))

RECURSIVE MergeGain(_)
MergeGain(s) ==
    IF Len(s) < 2 THEN 0
    ELSE IF s[1] = s[2] THEN 2 * s[1] + MergeGain(SubSeq(s, 3, Len(s)))
         ELSE MergeGain(Tail(s))

ExpectedLine(ln) ==
    LET m == MergePairs(Compact(ln))
    IN  [i \in Idx |-> IF i <= Len(m) THEN m[i] ELSE 0]

TileValues(row) == [i \in 1..Len(row) |-> row[i].value]

\* C1: for every line of 4 cells the dense slideAndMergeRow returns the
\* compacted, pairwise merged and padded line with scoreGained the sum of the
\* merge results, and the sparse slideRow returns tiles of the same values
\* (merged set exactly when a merge happened); the three worked examples of
\* the specification come out as stated.
C1_LinePrimitive ==
    /\ last.op = "slideAndMergeRow" =>
          /\ last.res.row = ExpectedLine(line)
          /\ Len(last.res.row) = SIZE
          /\ last.res.scoreGained = MergeGain(Compact(line))
          /\ line = <<2, 2, 4, 0>> => last.res = [row |-> <<4, 4, 0, 0>>, scoreGained |-> 4]
          /\ line = <<2, 0, 2, 2>> => last.res = [row |-> <<4, 2, 0, 0>>, scoreGained |-> 4]
          /\ line = <<4, 4, 4, 4>> => last.res = [row |-> <<8, 8, 0, 0>>, scoreGained |-> 16]
    /\ last.op = "slideRow" =>
          /\ TileValues(last.res.newRow) = ExpectedLine(line)
          /\ Len(last.res.newRow) = SIZE
          /\ last.res.merged = (MergeGain(Compact(line)) > 0)

\* a line with two merges was handed to both primitives
C1_Witness ==
    /\ line = <<4, 4, 4, 4>>
    /\ last.op \in {"slideAndMergeRow", "slideRow"}

\* C3 as stated: the total after equals the total before plus scoreGained.
C3_TotalPlusGain ==
    last.op = "slideAndMergeRow" =>
        SumSeq(last.res.row) = SumSeq(line) + last.res.scoreGained

\* C3 amended: the total of the line is the same before and after the call;
\* scoreGained is returned beside it and is never added to the line, so the
\* stated equation holds exactly for the lines that merge nothing.
C3_TotalConserved ==
    last.op = "slideAndMergeRow" =>
        /\ SumSeq(last.res.row) = SumSeq(line)
        /\ (SumSeq(last.res.row) = SumSeq(line) + last.res.scoreGained)
              <=> (last.res.scoreGained = 0)

\* a line that merges was slid
C3_Witness ==
    /\ last.op = "slideAndMergeRow"
    /\ last.res.scoreGained > 0
    /\ line = <<2, 0, 2, 2>>

-----------------------------------------------------------------------------
(* SpecBoard: the board functions of both variants applied to boards whose *)
(* rows are drawn from a pool of lines.                                    *)

RowChoices ==
    << <<0, 0, 0, 0>>, <<2, 4, 2, 4>>, <<4, 2, 4, 2>>, <<2, 2, 4, 0>>,
       <<0, 2, 0, 2>>, <<4, 4, 4, 4>>, <<2, 0, 0, 0>>, <<2, 4, 8, 2>>,
       <<0, 8, 8, 4>>, <<16, 0, 16, 16>> >>

RowPool == {RowChoices[i] : i \in 1..MaxRows}

\* the tile list of a board: one tile per occupied cell, ids in list order
TilesOf(g) ==
    LET occ == SelectSeq(CellSeq, LAMBDA rc : g[rc[1]][rc[2]] # 0)
    IN  [i \in 1..Len(occ) |->
            [id |-> i, value |-> g[occ[i][1]][occ[i][2]],
             row |-> occ[i][1] - 1, col |-> occ[i][2] - 1]]

ArrowKeys == {"ArrowLeft", "ArrowRight", "ArrowUp", "ArrowDown"}

\* the dense move an arrow key stands for (the switch of the dense onKey)
DenseMove(key, g) ==
    CASE key \in {"ArrowLeft", "a", "A"}  -> moveLeft(g)
      [] key \in {"ArrowRight", "d", "D"} -> moveRight(g)
      [] key \in {"ArrowUp", "w", "W"}    -> moveUp(g)
      [] key \in {"ArrowDown", "s", "S"}  -> moveDown(g)

InitBoard ==
    /\ NoGame
    /\ line = <<>>
    /\ grid \in [Idx -> RowPool]
    /\ tiles = TilesOf(grid)
    /\ nextId = Len(tiles) + 1
    /\ last = [op |-> "none"]

BoardFrame ==
    UNCHANGED <<variant, line, grid, score, best, history, tiles, nextId,
                gameOver, gameWin, steps>>

\* a call is made on a board drawn by InitBoard, once
CallMove(key) ==
    /\ last.op = "none"
    /\ last' = [op |-> "move", key |-> key, res |-> DenseMove(key, grid)]
    /\ BoardFrame

CallMoveTiles(key) ==
    /\ last.op = "none"
    /\ last' = [op |-> "moveTiles", key |-> key, res |-> moveTiles(tiles, key, nextId)]
    /\ BoardFrame

CallMoveLeftTwice ==
    /\ last.op = "none"
    /\ LET first == moveLeft(grid)
       IN  last' = [op |-> "moveLeftTwice", first |-> first, second |-> moveLeft(first.grid)]
    /\ BoardFrame

CallCanMove ==
    /\ last.op = "none"
    /\ last' = [op |-> "canMove", res |-> canMove(grid)]
    /\ BoardFrame

CallCanMoveS ==
    /\ last.op = "none"
    /\ last' = [op |-> "canMoveS", res |-> canMoveS(tiles)]
    /\ BoardFrame

CallAddRandomTile(draw) ==
    /\ last.op = "none"
    /\ last' = [op |-> "addRandomTile", draw |-> draw, res |-> addRandomTile(grid, draw)]
    /\ BoardFrame

CallAddRandomTileS(draw) ==
    /\ last.op = "none"
    /\ last' = [op |-> "addRandomTileS", draw |-> draw,
                res |-> addRandomTileS(tiles, nextId, draw)]
    /\ BoardFrame

\* canMove and the four moves on the same board
CallCanMoveAndMoves ==
    /\ last.op = "none"
    /\ last' = [op     |-> "canMoveAndMoves",
                can    |-> canMove(grid),
                moved  |-> [key \in ArrowKeys |-> DenseMove(key, grid).moved],
                canS   |-> canMoveS(tiles),
                movedS |-> [key \in ArrowKeys |-> moveTiles(tiles, key, nextId).moved]]
    /\ BoardFrame

NextBoard ==
    \/ \E key \in ArrowKeys : CallMove(key)
    \/ \E key \in ArrowKeys : CallMoveTiles(key)
    \/ CallMoveLeftTwice
    \/ CallCanMove
    \/ CallCanMoveS
    \/ \E draw \in RandDraw : CallAddRandomTile(draw)
    \/ \E draw \in RandDraw : CallAddRandomTileS(draw)
    \/ CallCanMoveAndMoves

SpecBoard == InitBoard /\ [][NextBoard]_vars

-----------------------------------------------------------------------------
(* Claims about the board functions                                        *)

\* some row holds two equal non-empty horizontal neighbours
EqualRowNeighbours(g) ==
    \E r \in Idx : \E c \in 1..(SIZE - 1) : g[r][c] # 0 /\ g[r][c] = g[r][c + 1]

\* no row holds an empty cell before a non-empty one
LeftCompacted(g) ==
    \A r \in Idx : \A c \in 1..(SIZE - 1) : g[r][c] = 0 => g[r][c + 1] = 0

\* C2 as stated: a second moveLeft never changes the board and returns
\* moved = false.
C2_Idempotent ==
    last.op = "moveLeftTwice" =>
        /\ last.second.grid = last.first.grid
        /\ ~last.second.moved

\* C2 amended: the result of moveLeft is compacted to the left, so a second
\* moveLeft slides nothing; it changes the board (and returns moved = true)
\* exactly when some row of the first result holds two equal neighbouring
\* tiles, which it then merges.
C2_IdempotentUnlessMergeable ==
    last.op = "moveLeftTwice" =>
        /\ LeftCompacted(last.first.grid)
        /\ (last.second.grid = last.first.grid) <=> ~EqualRowNeighbours(last.first.grid)
        /\ last.second.moved <=> (last.second.grid # last.first.grid)
        /\ ~EqualRowNeighbours(last.first.grid) => last.second.score = 0

\* a board whose first moveLeft merged and whose second moveLeft changed nothing
C2_Witness ==
    /\ last.op = "moveLeftTwice"
    /\ last.first.moved /\ last.first.score > 0
    /\ ~last.second.moved
    /\ last.second.grid = last.first.grid

\* C4: for each of the four directions moved is true exactly when some cell
\* value of the result differs from the board moved, in the dense variant
\* and in the sparse variant (which compares tile ids).
C4_MovedIffChanged ==
    /\ last.op = "move" => (last.res.moved <=> (last.res.grid # grid))
    /\ last.op = "moveTiles" =>
          (last.res.moved <=> (ValueGrid(last.res.tiles) # ValueGrid(tiles)))

\* a vertical move that slid tiles without merging any
C4_Witness ==
    /\ last.op \in {"move", "moveTiles"}
    /\ last.key = "ArrowDown"
    /\ last.res.moved
    /\ last.op = "move" => last.res.score = 0
    /\ last.op = "moveTiles" => last.res.nextId = nextId

Full(g) == \A r \in Idx : \A c \in Idx : g[r][c] # 0

NoEqualNeighbours(g) ==
    /\ \A r \in Idx : \A c \in 1..(SIZE - 1) : g[r][c] # g[r][c + 1]
    /\ \A r \in 1..(SIZE - 1) : \A c \in Idx : g[r][c] # g[r + 1][c]

\* C9: the legal-move check is false exactly on the full boards without two
\* equal neighbours, in both variants, which therefore agree on every board.
C9_CanMove ==
    /\ last.op = "canMove" => (last.res = FALSE <=> (Full(grid) /\ NoEqualNeighbours(grid)))
    /\ last.op = "canMoveS" =>
          /\ last.res = FALSE <=> (Full(grid) /\ NoEqualNeighbours(grid))
          /\ last.res = canMove(grid)

\* the check answered false
C9_Witness ==
    /\ last.op \in {"canMove", "canMoveS"}
    /\ last.res = FALSE

\* C10: for each direction the tiles moveTiles returns hold the values of the
\* grid the dense move returns, cell by cell, and the two moved flags agree.
C10_SparseEqualsDense ==
    last.op = "moveTiles" =>
        /\ ValueGrid(last.res.tiles) = DenseMove(last.key, ValueGrid(tiles)).grid
        /\ last.res.moved = DenseMove(last.key, ValueGrid(tiles)).moved
        /\ Len(last.res.tiles) = Cardinality({rc \in Cells : ValueGrid(last.res.tiles)[rc[1]][rc[2]] # 0})

\* a downward move of the tile list that merged
C10_Witness ==
    /\ last.op = "moveTiles"
    /\ last.key = "ArrowDown"
    /\ last.res.moved
    /\ last.res.nextId > nextId

\* the move M carried over by the board symmetry F (F is its own inverse)
Conjugate(F(_), M(_), g) ==
    LET res == M(F(g))
    IN  [grid |-> F(res.grid), moved |-> res.moved, score |-> res.score]

\* the move of a key written with moveLeft and the symmetries alone
ByLeft(key, g) ==
    LET mirrored(h) == Conjugate(reverseRows, moveLeft, h)
    IN  CASE key = "ArrowLeft"  -> moveLeft(g)
          [] key = "ArrowRight" -> mirrored(g)
          [] key = "ArrowUp"    -> Conjugate(transpose, moveLeft, g)
          [] key = "ArrowDown"  -> Conjugate(transpose, mirrored, g)

\* C11: every directional move is moveLeft conjugated by a board symmetry:
\* moveRight is moveLeft between two reverseRows, moveUp is moveLeft between
\* two transposes, moveDown is moveRight between two transposes, with the
\* same grid, moved flag and score; moveTiles gives the same value grid and
\* moved flag.
C11_MovesAreConjugates ==
    /\ last.op = "move" => last.res = ByLeft(last.key, grid)
    /\ last.op = "moveTiles" =>
          /\ ValueGrid(last.res.tiles) = ByLeft(last.key, ValueGrid(tiles)).grid
          /\ last.res.moved = ByLeft(last.key, ValueGrid(tiles)).moved

\* a dense move to the right that merged
C11_Witness ==
    /\ last.op = "move"
    /\ last.key = "ArrowRight"
    /\ last.res.moved
    /\ last.res.score > 0

\* board h is board g with one empty cell of g set to 2 or 4
OneTileAdded(g, h) ==
    /\ Cardinality({rc \in Cells : g[rc[1]][rc[2]] # h[rc[1]][rc[2]]}) = 1
    /\ \A rc \in Cells :
          g[rc[1]][rc[2]] # h[rc[1]][rc[2]] => g[rc[1]][rc[2]] = 0 /\ h[rc[1]][rc[2]] \in {2, 4}
    /\ Cardinality({rc \in Cells : h[rc[1]][rc[2]] # 0})
          = Cardinality({rc \in Cells : g[rc[1]][rc[2]] # 0}) + 1

\* C13: addRandomTile on a board with an empty cell sets exactly one empty
\* cell to 2 or 4, leaves every other cell as it was and so raises the
\* number of occupied cells by one; on a full board it returns the board
\* unchanged.  The sparse addRandomTile appends one tile, with the next id,
\* and on a full board returns the list and leaves nextId alone.
C13_SpawnAddsOneTile ==
    /\ last.op = "addRandomTile" =>
          IF Full(grid) THEN last.res = grid ELSE OneTileAdded(grid, last.res)
    /\ last.op = "addRandomTileS" =>
          IF Full(ValueGrid(tiles))
          THEN last.res.tiles = tiles /\ last.res.nextId = nextId
          ELSE /\ OneTileAdded(ValueGrid(tiles), ValueGrid(last.res.tiles))
               /\ Len(last.res.tiles) = Len(tiles) + 1
               /\ SubSeq(last.res.tiles, 1, Len(tiles)) = tiles
               /\ last.res.tiles[Len(tiles) + 1].id = nextId
               /\ last.res.nextId = nextId + 1

\* a tile was added to a board whose first cell is occupied
C13_Witness ==
    /\ last.op = "addRandomTile"
    /\ grid[1][1] # 0
    /\ ~Full(grid)
    /\ last.res # grid

\* C18: on a board with at least one tile canMove is true exactly when one
\* of the four moves returns moved = true, in both variants: a board is
\* without a legal move exactly when no key could change it.
C18_CanMoveIffSomeMoveMoves ==
    (last.op = "canMoveAndMoves" /\ \E rc \in Cells : grid[rc[1]][rc[2]] # 0) =>
        /\ last.can <=> \E key \in ArrowKeys : last.moved[key]
        /\ last.canS <=> \E key \in ArrowKeys : last.movedS[key]

\* a full board on which only a vertical move is accepted
C18_Witness ==
    /\ last.op = "canMoveAndMoves"
    /\ Full(grid)
    /\ last.can
    /\ ~last.moved["ArrowLeft"] /\ ~last.moved["ArrowRight"]
    /\ last.moved["ArrowUp"]

-----------------------------------------------------------------------------
(* The two games.  An action is one event handled to the end, with the     *)
(* renders and effects it causes.                                          *)

\* the keys of the model: the four arrows, "w" (a move key of the dense
\* variant only) and "x" (no move key of either)
Keys == ArrowKeys \cup {"w", "x"}

DenseKeys == {"ArrowLeft", "a", "A", "ArrowRight", "d", "D",
              "ArrowUp", "w", "W", "ArrowDown", "s", "S"}

\* localStorage.getItem("best2048") at start: nothing stored, or a number
BestStored == {0, 8}

\* a bug: the early return of a move that changed nothing is missing
applyMoveNoReturn(res, oldGrid, oldScore, bst, h, draw) ==
    LET withTile == addRandomTile(cloneGrid(res.grid), draw)
        ns == oldScore + res.score
    IN  [grid    |-> withTile,
         score   |-> ns,
         best    |-> IF ns > bst THEN ns ELSE bst,
         history |-> pushHistory(h, oldGrid, oldScore)]

\* a bug: the tile is added to the board before the move, not to the slid one
applyMoveSpawnOnOld(res, oldGrid, oldScore, bst, h, draw) ==
    IF ~res.moved THEN [grid |-> oldGrid, score |-> oldScore, best |-> bst, history |-> h]
    ELSE LET withTile == addRandomTile(cloneGrid(oldGrid), draw)
             ns == oldScore + res.score
         IN  [grid    |-> withTile,
              score   |-> ns,
              best    |-> IF ns > bst THEN ns ELSE bst,
              history |-> pushHistory(h, oldGrid, oldScore)]

\* a bug: the snapshot is taken after the move, not before it
applyMoveSnapshotAfter(res, oldGrid, oldScore, bst, h, draw) ==
    IF ~res.moved THEN [grid |-> oldGrid, score |-> oldScore, best |-> bst, history |-> h]
    ELSE LET withTile == addRandomTile(cloneGrid(res.grid), draw)
             ns == oldScore + res.score
         IN  [grid    |-> withTile,
              score   |-> ns,
              best    |-> IF ns > bst THEN ns ELSE bst,
              history |-> pushHistory(h, withTile, ns)]

\* applyMove with res = fn(oldGrid): the new grid, score, best and history
applyMove(res, oldGrid, oldScore, bst, h, draw) ==
    IF ~res.moved THEN [grid |-> oldGrid, score |-> oldScore, best |-> bst, history |-> h]
    ELSE LET withTile == addRandomTile(cloneGrid(res.grid), draw)
             ns == oldScore + res.score
         IN  [grid    |-> withTile,
              score   |-> ns,
              best    |-> IF ns > bst THEN ns ELSE bst,
              history |-> pushHistory(h, oldGrid, oldScore)]

\* the dense onKey handles nothing: game over, or no move key
DenseIgnores(over, key) == over \/ key \notin DenseKeys

\* a bug: the effect that recomputes gameOver from the grid is missing
KeyDenseNoEffect(key) ==
    /\ variant = "dense"
    /\ steps < MaxSteps
    /\ steps' = steps + 1
    /\ UNCHANGED <<variant, line, tiles, nextId, gameWin>>
    /\ IF DenseIgnores(gameOver, key)
       THEN /\ last' = [op |-> "key", key |-> key, called |-> FALSE,
                        moved |-> FALSE, slid |-> grid]
            /\ UNCHANGED <<grid, score, best, history, gameOver>>
       ELSE \E res \in {DenseMove(key, grid)} :
            \E draw \in IF res.moved THEN RandDraw ELSE {<<0, 2>>} :
            \E new \in {applyMove(res, grid, score, best, history, draw)} :
               /\ grid' = new.grid
               /\ score' = new.score
               /\ best' = new.best
               /\ history' = new.history
               /\ gameOver' = gameOver
               /\ last' = [op |-> "key", key |-> key, called |-> TRUE,
                           moved |-> res.moved, slid |-> res.grid]

KeyDense(key) ==
    /\ variant = "dense"
    /\ steps < MaxSteps
    /\ steps' = steps + 1
    /\ UNCHANGED <<variant, line, tiles, nextId, gameWin>>
    /\ IF DenseIgnores(gameOver, key)
       THEN /\ last' = [op |-> "key", key |-> key, called |-> FALSE,
                        moved |-> FALSE, slid |-> grid]
            /\ UNCHANGED <<grid, score, best, history, gameOver>>
       ELSE \E res \in {DenseMove(key, grid)} :
            \E draw \in IF res.moved THEN RandDraw ELSE {<<0, 2>>} :
            \E new \in {applyMove(res, grid, score, best, history, draw)} :
               /\ grid' = new.grid
               /\ score' = new.score
               /\ best' = new.best
               /\ history' = new.history
               \* useEffect(() => setGameOver(!canMove(grid)), [grid])
               /\ gameOver' = IF res.moved THEN ~canMove(new.grid) ELSE gameOver
               /\ last' = [op |-> "key", key |-> key, called |-> TRUE,
                           moved |-> res.moved, slid |-> res.grid]

UndoDense ==
    /\ variant = "dense"
    /\ steps < MaxSteps
    /\ steps' = steps + 1
    /\ UNCHANGED <<variant, line, tiles, nextId, gameWin, best>>
    /\ IF Len(history) = 0
       THEN /\ gameOver' = FALSE
            /\ UNCHANGED <<grid, score, history>>
       ELSE LET lastSnap == history[Len(history)]
            IN  /\ grid' = cloneGrid(lastSnap.grid)
                /\ score' = lastSnap.score
                /\ history' = SubSeq(history, 1, Len(history) - 1)
                \* setGameOver(false), then the effect of the new grid
                /\ gameOver' = ~canMove(lastSnap.grid)
    /\ last' = [op |-> "undo", popped |-> Len(history) > 0]

RestartDense ==
    /\ variant = "dense"
    /\ steps < MaxSteps
    /\ steps' = steps + 1
    /\ UNCHANGED <<variant, line, tiles, nextId, gameWin, best>>
    /\ \E draws \in InitDraws : \E g \in {initGrid(draws)} :
          /\ grid' = g
          \* setGameOver(false), then the effect of the new grid
          /\ gameOver' = ~canMove(g)
    /\ score' = 0
    /\ history' = <<>>
    /\ last' = [op |-> "restart"]

\* a bug: the sparse onKey does not return when the game is won
SparseIgnoresUnlessWon(over, win, key) == over \/ key \notin ArrowKeys

\* the sparse onKey handles nothing: game over or won, or no arrow key
SparseIgnores(over, win, key) == over \/ win \/ key \notin ArrowKeys

\* the sparse onKey after mt = moveTiles(tiles, e.key): the new tiles, nextId
\* and flags
onKeyMoved(mt, ts, over, win, draw) ==
    IF ~mt.moved
    THEN [tiles |-> ts, nextId |-> mt.nextId, gameOver |-> over, gameWin |-> win]
    ELSE LET withNew == addRandomTileS(mt.tiles, mt.nextId, draw)
         IN  [tiles    |-> withNew.tiles,
              nextId   |-> withNew.nextId,
              gameOver |-> IF ~canMoveS(withNew.tiles) THEN TRUE ELSE over,
              gameWin  |-> IF \E i \in 1..Len(withNew.tiles) :
                                 withNew.tiles[i].value >= WinValue
                           THEN TRUE ELSE win]

KeySparse(key) ==
    /\ variant = "sparse"
    /\ steps < MaxSteps
    /\ steps' = steps + 1
    /\ UNCHANGED <<variant, line, grid, score, best, history>>
    /\ IF SparseIgnores(gameOver, gameWin, key)
       THEN /\ last' = [op |-> "key", key |-> key, called |-> FALSE,
                        moved |-> FALSE, slid |-> ValueGrid(tiles)]
            /\ UNCHANGED <<tiles, nextId, gameOver, gameWin>>
       ELSE \E mt \in {moveTiles(tiles, key, nextId)} :
            \E draw \in IF mt.moved THEN RandDraw ELSE {<<0, 2>>} :
            \E new \in {onKeyMoved(mt, tiles, gameOver, gameWin, draw)} :
               /\ tiles' = new.tiles
               /\ nextId' = new.nextId
               /\ gameOver' = new.gameOver
               /\ gameWin' = new.gameWin
               /\ last' = [op |-> "key", key |-> key, called |-> TRUE,
                           moved |-> mt.moved, slid |-> ValueGrid(mt.tiles)]

\* a bug: the ids start again at FirstId
InitTilesFromOne(nid, draws) ==
    LET one == addRandomTileS(newEmptyBoard, FirstId, draws[1])
    IN  addRandomTileS(one.tiles, one.nextId, draws[2])

\* init = addRandomTile(addRandomTile([])), from the current nextId
InitTiles(nid, draws) ==
    LET one == addRandomTileS(newEmptyBoard, nid, draws[1])
    IN  addRandomTileS(one.tiles, one.nextId, draws[2])

RestartSparse ==
    /\ variant = "sparse"
    /\ steps < MaxSteps
    /\ steps' = steps + 1
    /\ UNCHANGED <<variant, line, grid, score, best, history>>
    /\ \E draws \in InitDraws : \E init \in {InitTiles(nextId, draws)} :
          /\ tiles' = init.tiles
          /\ nextId' = init.nextId
    /\ gameOver' = FALSE
    /\ gameWin' = FALSE
    /\ last' = [op |-> "restart"]

-----------------------------------------------------------------------------
(* Positions of games in progress.  Each is the state the program is in    *)
(* after the play written above it, replayed from a start of the program   *)
(* with nothing stored as best score.                                      *)

\* The dense game after this play (+rc=v: a start tile; Lrc=v: key L, then a
\* tile v spawned at row r, column c, 0-based):
\*   +23=2 +22=2 D01=2 U22=2 U33=4 U12=4 U23=2 L03=2 L32=2 L13=2 U30=2
\*   U22=2 U13=2 D12=2 U11=2 R21=2 L22=2 R32=2 L31=2 L33=4 U13=2 R31=2
\*   L33=4 U31=2 L31=2 L33=2 L32=4 U33=2 U30=2
PlayedDense ==
    [grid |->
        << <<2, 8, 2, 8>>, <<16, 2, 4, 2>>, <<0, 8, 2, 4>>, <<2, 2, 4, 2>> >>,
     score |-> 88,
     history |->
        << [grid |-> << <<2, 8, 2, 4>>, <<8, 2, 4, 0>>, <<2, 4, 2, 0>>, <<2, 2, 0, 0>> >>, score |-> 36],
           [grid |-> << <<2, 8, 2, 4>>, <<8, 2, 4, 0>>, <<2, 4, 2, 0>>, <<4, 0, 0, 4>> >>, score |-> 40],
           [grid |-> << <<2, 8, 2, 8>>, <<8, 2, 4, 2>>, <<2, 4, 2, 0>>, <<4, 0, 0, 0>> >>, score |-> 48],
           [grid |-> << <<2, 8, 2, 8>>, <<8, 2, 4, 2>>, <<0, 2, 4, 2>>, <<0, 2, 0, 4>> >>, score |-> 48],
           [grid |-> << <<2, 8, 2, 8>>, <<8, 2, 4, 2>>, <<2, 4, 2, 0>>, <<2, 4, 0, 4>> >>, score |-> 48],
           [grid |-> << <<2, 8, 2, 8>>, <<8, 2, 4, 2>>, <<4, 8, 2, 4>>, <<0, 2, 0, 0>> >>, score |-> 60],
           [grid |-> << <<2, 8, 2, 8>>, <<8, 2, 4, 2>>, <<4, 8, 2, 4>>, <<2, 2, 0, 0>> >>, score |-> 60],
           [grid |-> << <<2, 8, 2, 8>>, <<8, 2, 4, 2>>, <<4, 8, 2, 4>>, <<4, 0, 0, 2>> >>, score |-> 64],
           [grid |-> << <<2, 8, 2, 8>>, <<8, 2, 4, 2>>, <<4, 8, 2, 4>>, <<4, 2, 4, 0>> >>, score |-> 64],
           [grid |-> << <<2, 8, 2, 8>>, <<8, 2, 4, 2>>, <<8, 8, 2, 4>>, <<0, 2, 4, 2>> >>, score |-> 72] >>]

\* The sparse game after this play:
\*   +23=2 +22=2 D01=2 U22=2 U33=4 U12=4 U23=2 L03=2 L32=2 L13=2 U30=2
\*   U22=2 U13=2 D12=2 U11=2 R21=2 L22=2 R32=2 L31=2 L33=4 U13=2 R31=2
\*   L33=4 U31=2 L31=2 L33=2 L32=4 U33=2 U30=2
\* (one key away from a board without a legal move)
PlayedSparseA ==
    [tiles |->
        << [id |-> 3, value |-> 2, row |-> 0, col |-> 0],
           [id |-> 8, value |-> 8, row |-> 0, col |-> 1],
           [id |-> 20, value |-> 2, row |-> 0, col |-> 2],
           [id |-> 29, value |-> 8, row |-> 0, col |-> 3],
           [id |-> 42, value |-> 16, row |-> 1, col |-> 0],
           [id |-> 21, value |-> 2, row |-> 1, col |-> 1],
           [id |-> 11, value |-> 4, row |-> 1, col |-> 2],
           [id |-> 30, value |-> 2, row |-> 1, col |-> 3],
           [id |-> 34, value |-> 8, row |-> 2, col |-> 1],
           [id |-> 24, value |-> 2, row |-> 2, col |-> 2],
           [id |-> 32, value |-> 4, row |-> 2, col |-> 3],
           [id |-> 38, value |-> 2, row |-> 3, col |-> 1],
           [id |-> 39, value |-> 4, row |-> 3, col |-> 2],
           [id |-> 41, value |-> 2, row |-> 3, col |-> 3],
           [id |-> 43, value |-> 2, row |-> 3, col |-> 0] >>,
     nextId |-> 44]

\* The sparse game after this play:
\*   +03=2 +32=4 L02=2 U20=2 D23=2 U01=4 L03=2 L23=2 D23=2 U31=2 U23=2
\*   L21=2 U13=2 L33=2 L21=2 L21=2 U12=2 L22=2 L03=2 L13=2 U20=2 R33=2
\*   U33=4 U20=2 U30=2 L22=4 U22=2 L33=4 U22=2 L23=2 L33=4 U22=2 L13=2
\*   U13=2 L23=2 U22=4 L22=2 L33=2 L23=4 L23=4 L33=2 L23=4 U31=4 U23=2
\*   U33=4 L33=2 U22=2 L31=2 L31=2 L22=2 R32=2 L33=2 U23=2 L33=2 U23=2
\*   U31=2 L31=2 R31=2 D00=2 U33=2 L21=2 U33=2
\* (one key away from a 128 tile)
PlayedSparseB ==
    [tiles |->
        << [id |-> 108, value |-> 2, row |-> 0, col |-> 0],
           [id |-> 105, value |-> 64, row |-> 0, col |-> 1],
           [id |-> 115, value |-> 64, row |-> 0, col |-> 2],
           [id |-> 103, value |-> 2, row |-> 0, col |-> 3],
           [id |-> 113, value |-> 8, row |-> 1, col |-> 0],
           [id |-> 114, value |-> 4, row |-> 1, col |-> 1],
           [id |-> 110, value |-> 2, row |-> 2, col |-> 0],
           [id |-> 116, value |-> 2, row |-> 3, col |-> 3] >>,
     nextId |-> 117]

\* The sparse game after this play:
\*   +00=2 +21=4 U33=4 D23=2 L33=2 U11=4 L21=2 L13=4 L30=2 U23=2 L31=2
\*   U31=2 L31=2 U31=2 U32=2 U31=2 U23=2 L33=4 U21=2 L32=2 U33=2 U33=2
\*   L33=2 L32=2 L23=2 U22=2 L32=2 L32=2 L33=2 U32=4 L32=4 U33=2 U12=2
\*   L32=2 U23=2 L31=2 U31=2 R10=2 L23=2 U33=2 L22=2 U32=2 L32=2 L23=2
\*   L13=2 L33=2 U33=4 U22=2 L31=2 U32=4 D03=2 U33=2 U33=4 U33=2 L33=2
\*   L33=2 L33=2 L33=2 R10=2 L12=4 U13=2 U23=2 U33=4 L32=2 D13=2 L02=2
\*   U03=2 L33=2 U33=2 L33=2 L31=2 U22=2 L02=2 L32=2 D13=4 U22=2 L33=2
\*   U31=2 L23=2 U32=2 L31=2 U13=2 L31=2 L13=2 R32=2 U32=2 L33=2 L33=2
\*   U23=2 U23=4 D02=2 L02=4 R01=2 L03=2
\* (one key away from a full board that holds a 128 tile and has no legal move)
PlayedSparseC ==
    [tiles |->
        << [id |-> 171, value |-> 2, row |-> 0, col |-> 0],
           [id |-> 138, value |-> 64, row |-> 0, col |-> 1],
           [id |-> 170, value |-> 8, row |-> 0, col |-> 2],
           [id |-> 151, value |-> 16, row |-> 1, col |-> 0],
           [id |-> 111, value |-> 64, row |-> 1, col |-> 1],
           [id |-> 152, value |-> 16, row |-> 1, col |-> 2],
           [id |-> 165, value |-> 8, row |-> 1, col |-> 3],
           [id |-> 159, value |-> 4, row |-> 2, col |-> 0],
           [id |-> 117, value |-> 16, row |-> 2, col |-> 1],
           [id |-> 154, value |-> 4, row |-> 2, col |-> 2],
           [id |-> 164, value |-> 2, row |-> 2, col |-> 3],
           [id |-> 160, value |-> 2, row |-> 3, col |-> 0],
           [id |-> 156, value |-> 4, row |-> 3, col |-> 1],
           [id |-> 161, value |-> 2, row |-> 3, col |-> 2],
           [id |-> 166, value |-> 4, row |-> 3, col |-> 3],
           [id |-> 172, value |-> 2, row |-> 0, col |-> 3] >>,
     nextId |-> 173]

PlayedSparse == {PlayedSparseA, PlayedSparseB, PlayedSparseC}

InitDense ==
    /\ variant = "dense"
    /\ tiles = <<>> /\ nextId = FirstId /\ gameWin = FALSE
    /\ gameOver = FALSE
    /\ \/ /\ \E draws \in InitDraws : grid = initGrid(draws)
          /\ score = 0
          /\ best \in BestStored
          /\ history = <<>>
          /\ last = [op |-> "init"]
       \/ /\ grid = PlayedDense.grid
          /\ score = PlayedDense.score
          /\ best = PlayedDense.score
          /\ history = PlayedDense.history
          /\ last = [op |-> "played"]

InitSparse ==
    /\ variant = "sparse"
    /\ grid = newEmptyGrid /\ score = 0 /\ best = 0 /\ history = <<>>
    /\ gameOver = FALSE
    /\ gameWin = FALSE
    /\ \/ \E draws \in InitDraws : \E init \in {InitTiles(FirstId, draws)} :
             /\ tiles = init.tiles
             /\ nextId = init.nextId
             /\ last = [op |-> "init"]
       \/ \E p \in PlayedSparse :
             /\ tiles = p.tiles
             /\ nextId = p.nextId
             /\ last = [op |-> "played"]

\* last.op is "init" after a first load and "played" in a game in progress
Init ==
    /\ line = <<>>
    /\ steps = 0
    /\ (InitDense \/ InitSparse)

Next ==
    \/ \E key \in Keys : KeyDense(key)
    \/ UndoDense
    \/ RestartDense
    \/ \E key \in Keys : KeySparse(key)
    \/ RestartSparse

Spec == Init /\ [][Next]_vars

-----------------------------------------------------------------------------
(* Claims about the games                                                  *)

\* the board on display, as values
CurGrid == IF variant = "dense" THEN grid ELSE ValueGrid(tiles)

Occupied(g) == {rc \in Cells : g[rc[1]][rc[2]] # 0}

\* the cells in which two boards differ
Differ(g, h) == {rc \in Cells : g[rc[1]][rc[2]] # h[rc[1]][rc[2]]}

\* a start board: START_TILES tiles of value 2 or 4, nothing else
FreshBoard(g) ==
    /\ Cardinality(Occupied(g)) = START_TILES
    /\ \A rc \in Occupied(g) : g[rc[1]][rc[2]] \in {2, 4}

\* the game has ended: Lost in the dense variant, Won or Lost in the sparse one
Terminal == gameOver \/ gameWin

\* C5: a key whose move returns moved = false (and a key that is ignored)
\* changes nothing: board, tiles, score, best score, undo history, next
\* tile id and the status flags are as before.
C5_NoMoveNoChange ==
    [][(last'.op = "key" /\ steps' # steps /\ ~last'.moved) =>
          /\ grid' = grid /\ tiles' = tiles
          /\ score' = score /\ best' = best
          /\ history' = history
          /\ nextId' = nextId
          /\ gameOver' = gameOver /\ gameWin' = gameWin]_vars

\* an arrow key was handled, its move was made and moved nothing
C5_Witness ==
    /\ last.op = "key"
    /\ last.key \in ArrowKeys
    /\ last.called
    /\ ~last.moved

\* C6: after an accepted move the slid board had an empty cell and the board
\* now on display is the slid board with exactly one of its empty cells set
\* to 2 or 4; the sparse tile list holds one tile per occupied cell.
C6_OneSpawnPerMove ==
    (last.op = "key" /\ last.moved) =>
        /\ Cardinality(Occupied(last.slid)) < SIZE * SIZE
        /\ Cardinality(Differ(CurGrid, last.slid)) = 1
        /\ \A rc \in Differ(CurGrid, last.slid) :
              /\ last.slid[rc[1]][rc[2]] = 0
              /\ CurGrid[rc[1]][rc[2]] \in {2, 4}
        /\ Cardinality(Occupied(CurGrid)) = Cardinality(Occupied(last.slid)) + 1
        /\ variant = "sparse" => Len(tiles) = Cardinality(Occupied(CurGrid))

\* a move that filled the board: the slid board had a single empty cell
C6_Witness ==
    /\ last.op = "key"
    /\ last.moved
    /\ Cardinality(Occupied(last.slid)) = SIZE * SIZE - 1
    /\ Cardinality(Occupied(CurGrid)) = SIZE * SIZE

\* C7: in a terminal state a key changes neither board nor score nor status,
\* and a restart from any state leaves a start board with the status Playing.
C7_TerminalIgnoresKeys ==
    [][/\ (Terminal /\ last'.op = "key" /\ steps' # steps) =>
             /\ grid' = grid /\ tiles' = tiles
             /\ score' = score
             /\ gameOver' = gameOver /\ gameWin' = gameWin
       /\ (last'.op = "restart" /\ steps' # steps) =>
             /\ ~gameOver' /\ ~gameWin'
             /\ FreshBoard(CurGrid')
             /\ variant = "dense" => score' = 0]_vars

\* an arrow key arrived in a won game whose tiles could still move
C7_Witness ==
    /\ variant = "sparse"
    /\ gameWin /\ ~gameOver
    /\ last.op = "key"
    /\ last.key \in ArrowKeys
    /\ ~last.called
    /\ moveTiles(tiles, last.key, nextId).moved

HasWinTile(ts) == \E i \in 1..Len(ts) : ts[i].value >= WinValue

\* C8: the status is one of Playing, Won, Lost: after an accepted move whose
\* board holds a tile of WinValue or more the game is Won and not Lost, and
\* the game is never Won and Lost at once.
C8_WonOrLostNotBoth ==
    variant = "sparse" =>
        /\ ~(gameWin /\ gameOver)
        /\ (last.op = "key" /\ last.moved /\ HasWinTile(tiles)) => (gameWin /\ ~gameOver)

RECURSIVE IsPowerOfTwo(_)
IsPowerOfTwo(v) == v = 2 \/ (v > 2 /\ v % 2 = 0 /\ IsPowerOfTwo(v \div 2))

\* C12: in every state of either game every non-empty cell of the board
\* holds a power of two that is at least 2, and between 0 and SIZE * SIZE
\* cells are occupied (the tile list holds at most SIZE * SIZE tiles).
C12_TilesArePowersOfTwo ==
    /\ \A rc \in Cells : CurGrid[rc[1]][rc[2]] = 0 \/ IsPowerOfTwo(CurGrid[rc[1]][rc[2]])
    /\ Cardinality(Occupied(CurGrid)) \in 0..(SIZE * SIZE)
    /\ variant = "sparse" =>
          /\ Len(tiles) <= SIZE * SIZE
          /\ \A i \in 1..Len(tiles) : IsPowerOfTwo(tiles[i].value)

\* a move of a new dense game merged two tiles and a tile was spawned
C12_Witness ==
    /\ variant = "dense"
    /\ last.op = "key"
    /\ last.moved
    /\ Len(history) = 1
    /\ score > 0

\* C14: the board after a first load and after every restart holds exactly
\* START_TILES tiles, each 2 or 4, in distinct cells of an otherwise empty
\* board, and the status is Playing; in the dense variant the score is 0 and
\* the undo history is empty.
C14_StartBoard ==
    last.op \in {"init", "restart"} =>
        /\ FreshBoard(CurGrid)
        /\ ~gameOver /\ ~gameWin
        /\ variant = "dense" => score = 0 /\ history = <<>>
        /\ variant = "sparse" =>
              /\ Len(tiles) = START_TILES
              /\ \A i, j \in 1..Len(tiles) :
                    i # j => <<tiles[i].row, tiles[i].col>> # <<tiles[j].row, tiles[j].col>>

\* a restart of the played dense game after a move that merged
C14_Witness ==
    /\ variant = "dense"
    /\ last.op = "restart"
    /\ best > PlayedDense.score

\* a dense key step whose move was accepted
AcceptedDense == variant = "dense" /\ steps' # steps /\ last'.op = "key" /\ last'.moved

\* C15 as stated: the undo history never holds more than 9 snapshots.
C15_AtMostNine == Len(history) <= HistoryKeep

\* C15: the undo history never holds more than HistoryKeep + 1 = 10
\* snapshots; an accepted move pushes exactly one snapshot, the board and
\* score before the move, onto the HistoryKeep newest snapshots (the oldest
\* is dropped when there were 10); a key that is not accepted pushes nothing.
C15_AtMostTen ==
    [][/\ Len(history) <= HistoryKeep + 1
       /\ Len(history') <= HistoryKeep + 1
       /\ AcceptedDense =>
             history' = Append(IF Len(history) > HistoryKeep THEN Tail(history) ELSE history,
                               [grid |-> grid, score |-> score])
       /\ (variant = "dense" /\ steps' # steps /\ last'.op = "key" /\ ~last'.moved) =>
             history' = history]_vars

\* an accepted move on a history of 10 snapshots: the oldest one is gone
C15_Witness ==
    /\ variant = "dense"
    /\ last.op = "key"
    /\ last.moved
    /\ Len(history) = HistoryKeep + 1
    /\ history[1] # PlayedDense.history[1]

\* a step of the undo button
UndoStep == variant = "dense" /\ steps' # steps /\ last'.op = "undo"

\* C16: undo is the inverse of an accepted move.  An accepted move from
\* board g with score s leaves (g, s) as the newest snapshot; undo puts the
\* board and score of the newest snapshot back and removes that snapshot, so
\* an undo right after the move gives g and s again, and k undos after k
\* moves give the board and score before the first of them; undo on an
\* empty history leaves board, score and history as they are.  The first
\* move of a new game followed by undo is a start board with score 0 again.
C16_UndoInvertsMove ==
    [][/\ AcceptedDense =>
             /\ Len(history') > 0
             /\ history'[Len(history')] = [grid |-> grid, score |-> score]
       /\ UndoStep =>
             IF Len(history) = 0
             THEN grid' = grid /\ score' = score /\ history' = history
             ELSE /\ grid' = history[Len(history)].grid
                  /\ score' = history[Len(history)].score
                  /\ history' = SubSeq(history, 1, Len(history) - 1)
       /\ (UndoStep /\ steps = 1 /\ last.op = "key" /\ last.moved /\ Len(history) = 1) =>
             FreshBoard(grid') /\ score' = 0]_vars

\* the first move of a new game was accepted and then undone
C16_Witness ==
    /\ variant = "dense"
    /\ last.op = "undo"
    /\ last.popped
    /\ history = <<>>
    /\ steps = 2

\* C17: in every state of the dense game the gameOver flag is true exactly
\* when canMove(grid) is false, after moves, restarts and undos alike (undo
\* sets the flag to false itself, also on an empty history where the board
\* stays): no board without a legal move is left marked as still playing.
\* The flag undo sets is right because every snapshot is a board a move was
\* accepted from, and a board shown with an empty history has a legal move.
C17_GameOverIffStuck ==
    variant = "dense" =>
        /\ gameOver <=> ~canMove(grid)
        /\ \A i \in 1..Len(history) : canMove(history[i].grid)
        /\ history = <<>> => canMove(grid)

\* an accepted move left a board without a legal move
C17_Witness ==
    /\ variant = "dense"
    /\ gameOver
    /\ last.op = "key"
    /\ last.moved
    /\ Full(grid)

\* the sum of all tile values of a board
BoardTotal(g) == SumSeq([k \in 1..(SIZE * SIZE) |-> g[CellSeq[k][1]][CellSeq[k][2]]])

\* a key step whose move function was called
MoveStep == steps' # steps /\ last'.op = "key" /\ last'.called

\* C19: sliding and merging leave the sum of the tile values as it is, so an
\* accepted move raises the sum of the board by the spawned tile, 2 or 4.
\* In the sparse variant no tile exceeds WinValue, so the sum is at most
\* SIZE * SIZE * WinValue and a game has a bounded number of accepted moves.
C19_TotalGrowsBySpawn ==
    [][/\ MoveStep => BoardTotal(last'.slid) = BoardTotal(CurGrid)
       /\ (MoveStep /\ last'.moved) => BoardTotal(CurGrid') - BoardTotal(CurGrid) \in {2, 4}
       /\ (MoveStep /\ ~last'.moved) => BoardTotal(CurGrid') = BoardTotal(CurGrid)
       /\ variant = "sparse" =>
             /\ \A i \in 1..Len(tiles) : tiles[i].value <= WinValue
             /\ \A i \in 1..Len(tiles') : tiles'[i].value <= WinValue
             /\ BoardTotal(CurGrid') <= SIZE * SIZE * WinValue]_vars

\* an accepted move of the sparse game made a tile of WinValue
C19_Witness ==
    /\ variant = "sparse"
    /\ last.op = "key"
    /\ last.moved
    /\ \E i \in 1..Len(tiles) : tiles[i].value = WinValue

TileIds(ts) == {ts[i].id : i \in 1..Len(ts)}

\* one tile per cell, cells on the board, ids distinct and below nid
WellFormed(ts, nid) ==
    /\ \A i \in 1..Len(ts) :
          /\ ts[i].row \in 0..(SIZE - 1)
          /\ ts[i].col \in 0..(SIZE - 1)
          /\ ts[i].id \in FirstId..(nid - 1)
    /\ \A i, j \in 1..Len(ts) :
          i # j => /\ <<ts[i].row, ts[i].col>> # <<ts[j].row, ts[j].col>>
                   /\ ts[i].id # ts[j].id

\* C20: the tile list of the sparse game is well-formed in every state: no
\* two tiles in one cell, rows and columns in 0..3, ids pairwise distinct.
\* Every tile a step creates (by a spawn or a merge) takes the next id, which
\* is greater than every id given out before; a tile that is still there
\* after a step keeps its id and value; each merge of an accepted move takes
\* two tiles away and creates one.
C20_TileListWellFormed ==
    [][variant = "sparse" =>
          /\ WellFormed(tiles, nextId)
          /\ WellFormed(tiles', nextId')
          /\ nextId' >= nextId
          /\ TileIds(tiles') \ TileIds(tiles) = nextId..(nextId' - 1)
          /\ \A i \in 1..Len(tiles) : \A j \in 1..Len(tiles') :
                tiles[i].id = tiles'[j].id => tiles[i].value = tiles'[j].value
          /\ (steps' # steps /\ last'.op = "key" /\ last'.moved) =>
                Cardinality(TileIds(tiles) \ TileIds(tiles'))
                   = 2 * (Cardinality(TileIds(tiles') \ TileIds(tiles)) - 1)]_vars

\* an accepted move merged two tiles: the tile made just before the spawned
\* one is larger than a spawned tile
C20_Witness ==
    /\ variant = "sparse"
    /\ last.op = "key"
    /\ last.moved
    /\ \E i \in 1..Len(tiles) : tiles[i].id = nextId - 2 /\ tiles[i].value >= 8

====
